---------------------------- MODULE Spec2Model ----------------------------
(***************************************************************************)
(* A model of sxtwl-rs: the fixed-capacity cache (src/src/cache.rs), the   *)
(* 2-bit correction-table codec (src/build.rs, src/builder/modules/qishuo),*)
(* the LunarPhaseCalculator (src/src/lunar_phase_calculator.rs), the       *)
(* solver loops, the conversions of ganzhi.rs, julian.rs, holiday.rs,      *)
(* rabbyung.rs and jieqi.rs, and the series evaluation of                  *)
(* astronomy/planetary_orbits.rs and sxtwl/mod.rs.                         *)
(*                                                                         *)
(* Independent parts share the module.  Each has its own specification; a  *)
(* part's actions leave the other parts' variables unchanged.              *)
(*   Spec        the cache, called by concurrent threads                   *)
(*   CodecSpec   string_to_two_bits and the generated get_*_value accessor *)
(*   PhaseSpec   calculate_phase, called for one time and one quantity     *)
(*   LunarSpec   calculate_lunar_year_months                               *)
(*   LeapSpec    determine_leap_month on a calculator whose public fields  *)
(*               hold a fixture                                            *)
(*   SolverSpec  the loops of calculate_time_from_earth_longitude,         *)
(*               new_moon_jd and calc_jieqi_jd                             *)
(*   HolidaySpec LegalHoliday::next                                        *)
(*   GanZhiSpec  GanZhi::from_index followed by GanZhi::to_index           *)
(*   JulianSpec  SolarDate to JulianDay and back                           *)
(*   SeriesSpec  the loops over the orders of a coefficient table in       *)
(*               calculate_planet_coordinate and Sxtwl::elon               *)
(*   RabByungSpec RabByungYear::from_year followed by get_year             *)
(*   JieQiSpec   JieQi::to_index and JieQi::from_index                     *)
(***************************************************************************)
EXTENDS Integers, Sequences, FiniteSets, TLC

VARIABLES
    \* ---- cache.rs ----
    entries,        \* FixedCache::entries, slot 1..CACHE_SIZE
    lru_counter,    \* FixedCache::lru_counter
    pc,             \* per thread: where it is inside get_or_compute
    tkey,           \* per thread: the key of its get_or_compute call
    tdata,          \* per thread: what its closure returned
    last,           \* the cache call that completed (or stepped) last
    firstCall,      \* what the last returned get_or_compute(Watched) gave,
                    \*   kept until a clear or an eviction of Watched
    settled,        \* as firstCall, also dropped by any other insertion
                    \*   for Watched
    dirty,          \* per thread: another insertion for its key took effect
                    \*   after its lookup missed
    \* ---- codec ----
    s,              \* the string handed to string_to_two_bits
    packed,         \* the (bytes, len) pair it returned
    codecPc,
    decIndex,
    decResult,
    \* ---- LunarPhaseCalculator ----
    jieqi, pre_jieqi, shuo, month_indices, month_lengths, leap_month,
    lunarPc,        \* position inside calculate_lunar_year_months
    query,          \* the julian_day argument of the running call
    served,         \* the number of calls made on the calculator
    base_date,
    phase,          \* the last calculate_phase call made from outside
    shuo_decompressed,  \* the decompressed correction strings packed into
    qi_decompressed,    \*   SHUO_BYTES / SHUO_LEN and QI_BYTES / QI_LEN
    \* ---- functions without state, and the solver loops ----
    fnArg,            \* the argument of the call
    fnRet,            \* what the call returned
    fnPc,           \* "input" before the call, "returned" after it
    solver          \* a running solver loop: its name, iteration, residual

cacheVars == <<entries, lru_counter, pc, tkey, tdata, last, firstCall, settled, dirty>>
codecVars == <<s, packed, codecPc, decIndex, decResult>>
calcVars  == <<jieqi, pre_jieqi, shuo, month_indices, month_lengths, leap_month>>
lunarVars == <<calcVars, lunarPc, query, served, base_date, phase, shuo_decompressed, qi_decompressed>>
pureVars == <<fnArg, fnRet, fnPc, solver>>
vars == <<cacheVars, codecVars, lunarVars, pureVars>>

-----------------------------------------------------------------------------
(* Bounds *)

CACHE_SIZE == 2      \* the const generic CACHE_SIZE of the cache under test
MaxCounter == 1      \* lru_counter is explored up to this value
MaxStrLen == 5       \* longest string handed to the packer
MaxTableLen == 1     \* longest correction table of the calculator
MaxSlackDays == 1    \* fixture: how far before a solar term a new moon may fall

Threads == {"t1", "t2"}
Keys == {"k1", "k2"}
Values == {"a", "b"}

-----------------------------------------------------------------------------
(* cache.rs *)

\* usize::MAX.  Access counts of the model stay at or below MaxCounter, so
\* the largest integer TLC handles stands in for 2^64 - 1.
USIZE_MAX == 2147483647

None == "None"
NoEntry == [key |-> None, data |-> None, access_count |-> 0]
IsSome(e) == e.key # None

Slots == 1..CACHE_SIZE

\* FixedCache::new
FixedCache_new == [i \in Slots |-> NoEntry]

\* The loop of FixedCache::get from slot i on: the data of the first
\* occupied slot whose key matches, or None.
RECURSIVE GetScan(_, _, _)
GetScan(es, key, i) ==
    IF i > CACHE_SIZE THEN None
    ELSE IF IsSome(es[i]) /\ es[i].key = key THEN es[i].data
    ELSE GetScan(es, key, i + 1)

GetScanFromSecond(es, key) == GetScan(es, key, 2)

\* A lookup that finds nothing.
GetNeverHits(es, key) == None

FixedCache_get(es, key) == GetScan(es, key, 1)

\* The loop of FixedCache::insert from slot i on.  Returns the slot the new
\* entry is written to: the first empty slot, else replace_index.
RECURSIVE InsertScan(_, _, _, _)
InsertScan(es, i, replace_index, oldest_access) ==
    IF i > CACHE_SIZE THEN replace_index
    ELSE IF ~IsSome(es[i]) THEN i
    ELSE IF es[i].access_count < oldest_access
         THEN InsertScan(es, i + 1, i, es[i].access_count)
         ELSE InsertScan(es, i + 1, replace_index, oldest_access)

\* A scan that keeps the newest entry instead of the oldest.
RECURSIVE InsertScanNewest(_, _, _, _)
InsertScanNewest(es, i, replace_index, newest_access) ==
    IF i > CACHE_SIZE THEN replace_index
    ELSE IF ~IsSome(es[i]) THEN i
    ELSE IF es[i].access_count > newest_access
         THEN InsertScanNewest(es, i + 1, i, es[i].access_count)
         ELSE InsertScanNewest(es, i + 1, replace_index, newest_access)

ReplaceNewest(es) == InsertScanNewest(es, 1, 1, -1)

\* replace_index starts at 0 (slot 1 here), oldest_access at usize::MAX.
InsertIndex(es) == InsertScan(es, 1, 1, USIZE_MAX)

FixedCache_insert(es, counter, key, data) ==
    [es EXCEPT ![InsertIndex(es)] =
        [key |-> key, data |-> data, access_count |-> counter]]

Full(es) == \A i \in Slots : IsSome(es[i])

\* The key an insert overwrites, None when it fills an empty slot.
Evicted(es) == es[InsertIndex(es)].key

\* History kept for the claims.  Keys are interchangeable, so the history
\* follows one of them, Watched.  An insertion for key k by thread t ("-" for
\* a direct insert) into entries es:
Watched == "k1"

AfterInsertFirst(fc, es) == IF Evicted(es) = Watched THEN None ELSE fc

AfterInsertSettled(st, es, k) ==
    IF Evicted(es) = Watched \/ k = Watched THEN None ELSE st

AfterInsertDirty(t, k) ==
    [u \in Threads |->
        IF u # t /\ pc[u] # "idle" /\ tkey[u] = k /\ k = Watched
        THEN TRUE ELSE dirty[u]]

\* What `last` records of a call: the operation, its key, the data it
\* returned or stored, and a flag: for an insertion, that it found every
\* slot occupied; for a get_or_compute lookup of Watched, that `settled`
\* held a value when it began.
Call(op, k, d, flag) == [op |-> op, key |-> k, data |-> d, flag |-> flag]

CacheInit ==
    /\ entries = FixedCache_new
    /\ lru_counter = 0
    /\ pc = [t \in Threads |-> "idle"]
    /\ tkey = [t \in Threads |-> None]
    /\ tdata = [t \in Threads |-> None]
    /\ last = Call("new", None, None, FALSE)
    /\ firstCall = None
    /\ settled = None
    /\ dirty = [t \in Threads |-> FALSE]

\* A counter update that takes one away.
FetchSub(counter) == counter - 1

\* lru_counter.fetch_add(1, Ordering::Relaxed): the value stored
fetch_add(counter) == counter + 1

\* FixedCache::len and FixedCache::is_empty
FixedCache_len(es) == Cardinality({i \in Slots : IsSome(es[i])})
FixedCache_is_empty(es) == \A i \in Slots : ~IsSome(es[i])

\* A get that counts a lookup that misses as an access too.
GetCountsMiss(k) ==
    LET r == FixedCache_get(entries, k) IN
    /\ lru_counter < MaxCounter
    /\ lru_counter' = fetch_add(lru_counter)
    /\ last' = Call("get", k, r, FALSE)
    /\ UNCHANGED <<entries, pc, tkey, tdata, firstCall, settled, dirty>>
    /\ UNCHANGED <<codecVars, lunarVars, pureVars>>

\* ThreadSafeCache::get: lock, FixedCache::get, unlock.
Get(k) ==
    LET r == FixedCache_get(entries, k) IN
    /\ r # None => lru_counter < MaxCounter
    /\ lru_counter' = IF r # None THEN fetch_add(lru_counter) ELSE lru_counter
    /\ last' = Call("get", k, r, FALSE)
    /\ UNCHANGED <<entries, pc, tkey, tdata, firstCall, settled, dirty>>
    /\ UNCHANGED <<codecVars, lunarVars, pureVars>>

\* ThreadSafeCache::insert: lock, FixedCache::insert, unlock.
Insert(k, v) ==
    /\ entries' = FixedCache_insert(entries, lru_counter, k, v)
    /\ last' = Call("insert", k, v, Full(entries))
    /\ firstCall' = AfterInsertFirst(firstCall, entries)
    /\ settled' = AfterInsertSettled(settled, entries, k)
    /\ dirty' = AfterInsertDirty("-", k)
    /\ UNCHANGED <<lru_counter, pc, tkey, tdata>>
    /\ UNCHANGED <<codecVars, lunarVars, pureVars>>

\* ThreadSafeCache::clear
Clear ==
    /\ entries' = FixedCache_new
    /\ lru_counter' = 0
    /\ last' = Call("clear", None, None, FALSE)
    /\ firstCall' = None
    /\ settled' = None
    /\ UNCHANGED <<pc, tkey, tdata, dirty>>
    /\ UNCHANGED <<codecVars, lunarVars, pureVars>>

\* ThreadSafeCache::len and ThreadSafeCache::is_empty: lock, read the slots,
\* unlock.  They return FixedCache_len(entries) and
\* FixedCache_is_empty(entries) to the caller and write nothing, so they are
\* not recorded in last either.
CacheLen ==
    /\ FixedCache_len(entries) \in 0..CACHE_SIZE
    /\ UNCHANGED <<cacheVars, codecVars, lunarVars, pureVars>>

CacheIsEmpty ==
    /\ FixedCache_is_empty(entries) \in BOOLEAN
    /\ UNCHANGED <<cacheVars, codecVars, lunarVars, pureVars>>

\* get_or_compute, first statement: self.get(key) under the lock.  A hit
\* returns at once; a miss leaves the thread about to run its closure.
GocGet(t, k) ==
    LET r == FixedCache_get(entries, k)
        again == k = Watched /\ settled # None
    IN
    /\ pc[t] = "idle"
    /\ r # None => lru_counter < MaxCounter
    /\ IF r # None
       THEN /\ lru_counter' = fetch_add(lru_counter)
            /\ last' = Call("goc_hit", k, r, again)
            /\ firstCall' = IF k = Watched THEN r ELSE firstCall
            /\ settled' = IF k = Watched THEN r ELSE settled
            /\ UNCHANGED <<pc, tkey, dirty>>
       ELSE /\ pc' = [pc EXCEPT ![t] = "compute"]
            /\ tkey' = [tkey EXCEPT ![t] = k]
            /\ dirty' = [dirty EXCEPT ![t] = FALSE]
            /\ last' = Call("goc_miss", k, None, again)
            /\ UNCHANGED <<lru_counter, firstCall, settled>>
    /\ UNCHANGED <<entries, tdata>>
    /\ UNCHANGED <<codecVars, lunarVars, pureVars>>

\* get_or_compute, second statement: compute_fn() outside the lock.
GocCompute(t, v) ==
    /\ pc[t] = "compute"
    /\ pc' = [pc EXCEPT ![t] = "insert"]
    /\ tdata' = [tdata EXCEPT ![t] = v]
    /\ last' = Call("compute", tkey[t], v, FALSE)
    /\ UNCHANGED <<entries, lru_counter, tkey, firstCall, settled, dirty>>
    /\ UNCHANGED <<codecVars, lunarVars, pureVars>>

\* get_or_compute, third statement: self.insert(key, data), then return data.
GocInsert(t) ==
    LET k == tkey[t] IN
    /\ pc[t] = "insert"
    /\ entries' = FixedCache_insert(entries, lru_counter, k, tdata[t])
    /\ pc' = [pc EXCEPT ![t] = "idle"]
    /\ last' = Call("goc_return", k, tdata[t], Full(entries))
    /\ firstCall' = IF k = Watched THEN tdata[t]
                    ELSE AfterInsertFirst(firstCall, entries)
    /\ settled' = IF k = Watched
                  THEN (IF dirty[t] THEN None ELSE tdata[t])
                  ELSE AfterInsertSettled(settled, entries, k)
    /\ dirty' = [AfterInsertDirty(t, k) EXCEPT ![t] = FALSE]
    /\ tkey' = [tkey EXCEPT ![t] = None]
    /\ tdata' = [tdata EXCEPT ![t] = None]
    /\ UNCHANGED lru_counter
    /\ UNCHANGED <<codecVars, lunarVars, pureVars>>

CacheNext ==
    \/ \E k \in Keys : Get(k)
    \/ \E k \in Keys, v \in Values : Insert(k, v)
    \/ Clear
    \/ CacheLen
    \/ CacheIsEmpty
    \/ \E t \in Threads, k \in Keys : GocGet(t, k)
    \/ \E t \in Threads, v \in Values : GocCompute(t, v)
    \/ \E t \in Threads : GocInsert(t)

-----------------------------------------------------------------------------
(* The 2-bit codec: string_to_two_bits (build.rs, builder/modules/qishuo)   *)
(* and the generated accessors get_shuo_value / get_qi_value               *)

\* The characters a string is made of: the three digits the packer knows,
\* another one-byte character, and a character of two UTF-8 bytes.
Chars == {"0", "1", "2", "x", "U+00E9"}
Digits == {"0", "1", "2"}

Utf8Len(ch) == IF ch = "U+00E9" THEN 2 ELSE 1

\* str::len: the length in bytes
RECURSIVE StrLen(_)
StrLen(str) == IF str = <<>> THEN 0 ELSE Utf8Len(Head(str)) + StrLen(Tail(str))

\* All strings of at most n characters over cs
RECURSIVE Strings(_, _)
Strings(cs, n) ==
    IF n = 0 THEN {<<>>}
    ELSE LET shorter == Strings(cs, n - 1)
         IN shorter \cup {Append(x, c) : x \in shorter, c \in cs}

\* u8 arithmetic
Pow2(n) == 2 ^ n
Shl8(v, n) == (v * Pow2(n)) % 256
Shr8(v, n) == v \div Pow2(n)
RECURSIVE BitOr(_, _)
BitOr(a, b) ==
    IF a = 0 THEN b
    ELSE IF b = 0 THEN a
    ELSE (IF a % 2 = 1 \/ b % 2 = 1 THEN 1 ELSE 0) + 2 * BitOr(a \div 2, b \div 2)
RECURSIVE BitAnd(_, _)
BitAnd(a, b) ==
    IF a = 0 \/ b = 0 THEN 0
    ELSE (IF a % 2 = 1 /\ b % 2 = 1 THEN 1 ELSE 0) + 2 * BitAnd(a \div 2, b \div 2)

\* A match that lets an unknown character through as 0b11.
CharValueUnknownThree(ch) ==
    CASE ch = "0" -> 0
      [] ch = "1" -> 1
      [] ch = "2" -> 2
      [] OTHER -> 3

\* the match of string_to_two_bits
CharValue(ch) ==
    CASE ch = "0" -> 0
      [] ch = "1" -> 1
      [] ch = "2" -> 2
      [] OTHER -> 0

\* The for loop of string_to_two_bits from character i on, then the push of
\* a last partial byte.
RECURSIVE PackLoop(_, _, _, _, _)
PackLoop(str, i, bytes, current_byte, bit_count) ==
    IF i > Len(str)
    THEN IF bit_count > 0 THEN Append(bytes, current_byte) ELSE bytes
    ELSE LET value == CharValue(str[i])
             byte == BitOr(current_byte, Shl8(value, 6 - bit_count))
         IN IF bit_count + 2 = 8
            THEN PackLoop(str, i + 1, Append(bytes, byte), 0, 0)
            ELSE PackLoop(str, i + 1, bytes, byte, bit_count + 2)

string_to_two_bits(str) ==
    [bytes |-> PackLoop(str, 1, <<>>, 0, 0), len |-> StrLen(str)]

\* What a call of the accessor comes to: a value, or a panic on an index
\* outside the byte slice.
Returned(v) == [panic |-> FALSE, value |-> v]
Panicked == [panic |-> TRUE, value |-> 0]

\* An accessor that shifts from the low end of the byte.
GetValueLowFirst(table, index) ==
    IF index >= table.len THEN Returned(0)
    ELSE LET byte_index == index \div 4
             bit_offset == (index % 4) * 2
         IN IF byte_index >= Len(table.bytes) THEN Panicked
            ELSE Returned(BitAnd(Shr8(table.bytes[byte_index + 1], bit_offset), 3))

\* An accessor that guards with the byte count instead of the length.
GetValueByteGuard(table, index) ==
    IF index >= 4 * Len(table.bytes) + 4 THEN Returned(0)
    ELSE LET byte_index == index \div 4
             bit_offset == (index % 4) * 2
             shift == 6 - bit_offset
         IN IF byte_index >= Len(table.bytes) THEN Panicked
            ELSE Returned(BitAnd(Shr8(table.bytes[byte_index + 1], shift), 3))

\* get_shuo_value / get_qi_value over the table (BYTES, LEN)
get_value(table, index) ==
    IF index >= table.len THEN Returned(0)
    ELSE LET byte_index == index \div 4
             bit_offset == (index % 4) * 2
             shift == 6 - bit_offset
         IN IF byte_index >= Len(table.bytes) THEN Panicked
            ELSE Returned(BitAnd(Shr8(table.bytes[byte_index + 1], shift), 3))

CodecInit ==
    /\ s \in Strings(Chars, MaxStrLen)
    /\ packed = [bytes |-> <<>>, len |-> 0]
    /\ codecPc = "input"
    /\ decIndex = 0
    /\ decResult = Returned(0)

\* the build script packs the string
Pack ==
    /\ codecPc = "input"
    /\ packed' = string_to_two_bits(s)
    /\ codecPc' = "packed"
    /\ UNCHANGED <<s, decIndex, decResult>>
    /\ UNCHANGED <<cacheVars, lunarVars, pureVars>>

\* a caller decodes index i of the generated table
Decode(i) ==
    /\ codecPc \in {"packed", "decoded"}
    /\ decIndex' = i
    /\ decResult' = get_value(packed, i)
    /\ codecPc' = "decoded"
    /\ UNCHANGED <<s, packed>>
    /\ UNCHANGED <<cacheVars, lunarVars, pureVars>>

\* Indices up to one past the byte length of the longest string
DecodeIndices == 0..(2 * MaxStrLen + 1)

CodecNext ==
    \/ Pack
    \/ \E i \in DecodeIndices : Decode(i)

-----------------------------------------------------------------------------
(* lunar_phase_calculator.rs                                               *)
(*                                                                         *)
(* The f64 day counts of the source are fixed-point here: an integer       *)
(* number of ticks, TicksPerDay to the day, so that half days and the      *)
(* fractional starts of the fit segments are representable.                *)

TicksPerDay == 10 ^ 2
Days(n) == n * TicksPerDay
HalfDay == TicksPerDay \div 2
\* libm::floor of a day count
Floor(x) == (x \div TicksPerDay) * TicksPerDay

\* consts.rs
J2000 == Days(2451545)
LUNAR_MONTH_DAYS == 2953          \* 29.5306
TROPICAL_YEAR_DAYS == 36524       \* 365.2422
JIEQI_PER_YEAR == 24
\* JIEQI_INTERVAL * i, with JIEQI_INTERVAL = TROPICAL_YEAR_DAYS / JIEQI_PER_YEAR
JIEQI_INTERVAL(i) == (TROPICAL_YEAR_DAYS * i) \div JIEQI_PER_YEAR

JD_MINUS_103_1_23_12_00_00 == Days(1683460)
JD_1960_1_1_12_00_00 == Days(2436935)
JD_1999_3_21_12_00_00 == Days(2451259)
JD_2000_1_7_12_00_00 == Days(2451551)

\* qishuo_fit_parameter.rs, start and period rounded to the tick
Fit(start, period) == [start_julian_day |-> start, period_days |-> period]

SHUO_FIT_PARAMETERS ==
    <<Fit(145769823, 2953), Fit(154608251, 2953), Fit(164064074, 2953),
      Fit(164247215, 2953), Fit(168343051, 2953), Fit(175214804, 2953),
      Fit(180766542, 2953), Fit(188361811, 2953), Fit(190736070, 2953),
      Fit(193659622, 2953), Fit(193913568, 2953)>>

QI_FIT_PARAMETERS ==
    <<Fit(164065048, 1522), Fit(164247670, 1522), Fit(168343052, 1522),
      Fit(175215764, 1522), Fit(180767500, 1522), Fit(188362777, 1522),
      Fit(190736913, 1522), Fit(193660314, 1522), Fit(193914552, 1522),
      Fit(194718080, 1522), Fit(196436204, 1522), Fit(198737234, 1522),
      Fit(199965382, 1522), Fit(200744547, 1522), Fit(202132492, 1522),
      Fit(204725723, 1522), Fit(207028290, 1522), Fit(207320487, 1522),
      Fit(208014450, 1522), Fit(208670369, 1522), Fit(211003318, 1522),
      Fit(211119030, 1522), Fit(211373127, 1522), Fit(212067084, 1522),
      Fit(212397331, 1522), Fit(212506900, 1522), Fit(213602631, 1522),
      Fit(215609950, 1522), Fit(215902132, 1522), Fit(216230858, 1522),
      Fit(217848571, 1522), Fit(217875966, 1522), Fit(218533402, 1522),
      Fit(218752548, 1522), Fit(218862119, 1522)>>

CalculationTypes == {"Qi", "Shuo"}
Regimes == {"HighPrecision", "FlatPhase", "FixedPhase"}

get_fit_parameters(calc_type) ==
    IF calc_type = "Qi" THEN QI_FIT_PARAMETERS ELSE SHUO_FIT_PARAMETERS

get_period_constant(calc_type) ==
    IF calc_type = "Qi" THEN Days(7) ELSE Days(14)

FirstStart(calc_type) ==
    get_fit_parameters(calc_type)[1].start_julian_day - get_period_constant(calc_type)

LastStart(calc_type) ==
    LET params == get_fit_parameters(calc_type)
    IN params[Len(params)].start_julian_day - get_period_constant(calc_type)

\* A classification that takes the modern cutoff itself for the fixed regime.
ClassifyCutoffLate(jd, calc_type) ==
    LET f1 == FirstStart(calc_type)
        f2 == LastStart(calc_type)
    IN IF jd < f1 \/ jd > JD_1960_1_1_12_00_00 THEN "HighPrecision"
       ELSE IF jd >= f1 /\ jd < f2 THEN "FlatPhase"
       ELSE "FixedPhase"

determine_calculation_method(jd, calc_type) ==
    LET f1 == FirstStart(calc_type)
        f2 == LastStart(calc_type)
    IN IF jd < f1 \/ jd >= JD_1960_1_1_12_00_00 THEN "HighPrecision"
       ELSE IF jd >= f1 /\ jd < f2 THEN "FlatPhase"
       ELSE "FixedPhase"

\* A chain whose last branch leaves the start of the last segment out.
DispatchGap(jd, f1, f2, f3) ==
    IF jd < f1 \/ jd >= f3 THEN "HighPrecision"
    ELSE IF jd >= f1 /\ jd < f2 THEN "FlatPhase"
    ELSE IF jd > f2 THEN "FixedPhase"
    ELSE "Unhandled"

\* The if / else if / else if chain of Sxtwl::calc_shuo and Sxtwl::calc_qi,
\* which has no final else: d keeps its initial 0.0 when no branch is taken.
calc_dispatch(jd, f1, f2, f3) ==
    IF jd < f1 \/ jd >= f3 THEN "HighPrecision"
    ELSE IF jd >= f1 /\ jd < f2 THEN "FlatPhase"
    ELSE IF jd >= f2 THEN "FixedPhase"
    ELSE "Unhandled"

\* The two solvers are placeholders that return 0.0 for every angle.
calculate_qi_high_precision(angle) == 0
calculate_shuo_high_precision(angle) == 0

\* The argument of the solver without its constant factor (24 * PI / 12 /
\* TROPICAL_YEAR_DAYS, or 2 * PI / LUNAR_MONTH_DAYS), which the placeholder
\* never reads.
Angle(adjusted_jd, calc_type) ==
    adjusted_jd + get_period_constant(calc_type)
        - (IF calc_type = "Qi" THEN JD_1999_3_21_12_00_00 ELSE JD_2000_1_7_12_00_00)

calculate_high_precision(adjusted_jd, calc_type) ==
    IF calc_type = "Qi"
    THEN Floor(calculate_qi_high_precision(Angle(adjusted_jd, calc_type))) + Days(1)
    ELSE Floor(calculate_shuo_high_precision(Angle(adjusted_jd, calc_type))) + Days(1)

RECURSIVE SegmentScanStrict(_, _, _)
\* A scan that goes on only past a start that lies before the instant.
SegmentScanStrict(params, x, i) ==
    IF i + 1 <= Len(params) /\ x > params[i + 1].start_julian_day
    THEN SegmentScanStrict(params, x, i + 1)
    ELSE i

\* The while loop of calculate_flat_phase (i counts from 1 here).
RECURSIVE SegmentScan(_, _, _)
SegmentScan(params, x, i) ==
    IF i + 1 <= Len(params) /\ x >= params[i + 1].start_julian_day
    THEN SegmentScan(params, x, i + 1)
    ELSE i

RECURSIVE ScanReads(_, _, _)
\* the places of params the scan of calculate_flat_phase reads from place i on
ScanReads(params, x, i) ==
    IF i + 1 <= Len(params)
    THEN {i + 1} \cup (IF x >= params[i + 1].start_julian_day
                       THEN ScanReads(params, x, i + 1) ELSE {})
    ELSE {}

\* floor(d) + 0.5 of calculate_flat_phase, before the special correction
FlatRounded(adjusted_jd, calc_type) ==
    LET params == get_fit_parameters(calc_type)
        pc0 == get_period_constant(calc_type)
        i == SegmentScan(params, adjusted_jd + pc0, 1)
        d == params[i].start_julian_day
             + params[i].period_days
               * ((adjusted_jd + pc0 - params[i].start_julian_day)
                    \div params[i].period_days)
    IN Floor(d) + HalfDay

calculate_flat_phase(adjusted_jd, calc_type) ==
    LET rounded == FlatRounded(adjusted_jd, calc_type)
        result == IF rounded = JD_MINUS_103_1_23_12_00_00
                  THEN rounded + Days(1) ELSE rounded
    IN result - J2000

\* generated SHUO_BYTES / SHUO_LEN and QI_BYTES / QI_LEN
SHUO_TABLE == string_to_two_bits(shuo_decompressed)
QI_TABLE == string_to_two_bits(qi_decompressed)

\* The index of the correction symbol: whole periods elapsed since f2
\* (Sxtwl::calc_shuo, Sxtwl::calc_qi).
ShuoIndex(jd, f2) == (jd - f2) \div LUNAR_MONTH_DAYS
QiIndex(jd, f2) == ((jd - f2) * 24) \div TROPICAL_YEAR_DAYS

\* compressed_qishuo_correction_data: the accessors over the packed tables
get_shuo_correction(jd, f2) == get_value(SHUO_TABLE, ShuoIndex(jd, f2)).value
get_qi_correction(jd, f2) == get_value(QI_TABLE, QiIndex(jd, f2)).value

\* the first component of the match of calculate_fixed_phase
FixedEstimate(adjusted_jd, calc_type) ==
    IF calc_type = "Qi"
    THEN Floor(calculate_qi_high_precision(Angle(adjusted_jd, calc_type))) + Days(1)
    ELSE Floor(calculate_shuo_high_precision(Angle(adjusted_jd, calc_type))) + Days(1)

FixedSymbol(adjusted_jd, calc_type) ==
    IF calc_type = "Qi"
    THEN get_qi_correction(adjusted_jd, LastStart(calc_type))
    ELSE get_shuo_correction(adjusted_jd, LastStart(calc_type))

\* A match whose second arm adds the day it should take away.
FixedPhaseBothAdd(adjusted_jd, calc_type) ==
    LET ret == FixedEstimate(adjusted_jd, calc_type)
        n == FixedSymbol(adjusted_jd, calc_type)
    IN ret + (CASE n = 1 -> Days(1) [] n = 2 -> Days(1) [] OTHER -> 0)

calculate_fixed_phase(adjusted_jd, calc_type) ==
    LET ret == FixedEstimate(adjusted_jd, calc_type)
        n == FixedSymbol(adjusted_jd, calc_type)
    IN ret + (CASE n = 1 -> Days(1) [] n = 2 -> -Days(1) [] OTHER -> 0)

calculate_phase(jd, calc_type) ==
    LET adjusted_jd == jd + J2000
        method == determine_calculation_method(adjusted_jd, calc_type)
    IN CASE method = "HighPrecision" -> calculate_high_precision(adjusted_jd, calc_type)
         [] method = "FlatPhase" -> calculate_flat_phase(adjusted_jd, calc_type)
         [] method = "FixedPhase" -> calculate_fixed_phase(adjusted_jd, calc_type)

calculate_base_date(julian_day) ==
    LET base == ((julian_day - Days(355) + Days(183)) \div TROPICAL_YEAR_DAYS)
                    * TROPICAL_YEAR_DAYS + Days(355)
    IN IF calculate_phase(base, "Qi") > julian_day
       THEN base - TROPICAL_YEAR_DAYS ELSE base

\* Option<i32>
NoLeap == <<>>
SomeLeap(i) == <<i>>

calculate_jie(base) ==
    [jieqi |-> [i \in 0..24 |-> calculate_phase(base + JIEQI_INTERVAL(i), "Qi")],
     pre_jieqi |-> [i \in 0..1 |->
                      calculate_phase(base - JIEQI_INTERVAL(i + 1), "Qi")]]

calculate_shuo(jq) ==
    LET found == calculate_phase(jq[0], "Shuo")
        nearest_dongzhi_shuo ==
            IF found > jq[0] THEN found - LUNAR_MONTH_DAYS ELSE found
    IN [i \in 0..13 |->
          calculate_phase(nearest_dongzhi_shuo + LUNAR_MONTH_DAYS * i, "Shuo")]

\* shuo: [f64; 14]
SHUO_COUNT == 14

\* An index into an array of n values that passes the bounds check.
InBounds(i, n) == 0 <= i /\ i < n

\* for i in 0..14
MonthLoop == 0..13

\* The loop of calculate_month_properties reads shuo[i + 1] on every pass:
\* the call panics when one of the reads is out of bounds.
MonthPropertiesPanics == \E i \in MonthLoop : ~InBounds(i + 1, SHUO_COUNT)

\* A loop body that adds the length to what the field holds.
MonthPropertiesAccumulate(sh, lengths) ==
    [i \in 0..13 |->
        IF i \in MonthLoop /\ \A k \in 0..i : InBounds(k + 1, SHUO_COUNT)
        THEN lengths[i] + (sh[i + 1] - sh[i])
        ELSE lengths[i]]

\* month_lengths after calculate_month_properties: the passes before the
\* first read out of bounds have stored their length, the others have not
\* run.
calculate_month_properties(sh, lengths) ==
    [i \in 0..13 |->
        IF i \in MonthLoop /\ \A k \in 0..i : InBounds(k + 1, SHUO_COUNT)
        THEN sh[i + 1] - sh[i]
        ELSE lengths[i]]

\* A scan that also passes a new moon falling on the term.
RECURSIVE LeapScanPassEqual(_, _, _)
LeapScanPassEqual(sh, jq, i) ==
    IF i < 13 /\ sh[i + 1] >= jq[2 * i]
    THEN LeapScanPassEqual(sh, jq, i + 1) ELSE i

\* The while loop of determine_leap_month.
RECURSIVE LeapScan(_, _, _)
LeapScan(sh, jq, i) ==
    IF i < 13 /\ sh[i + 1] > jq[2 * i] THEN LeapScan(sh, jq, i + 1) ELSE i

\* A scan from 1 that passes a new moon falling on the term.
LeapIndexPassEqual(sh, jq) == LeapScanPassEqual(sh, jq, 1)

\* let mut i = 1; while ... { i += 1 }
LeapIndex(sh, jq) == LeapScan(sh, jq, 1)

\* A renumbering that skips the month after the leap month.
RenumberLate(indices, i) ==
    [j \in 0..13 |-> IF j >= i + 2 THEN indices[j] - 1 ELSE indices[j]]

\* A renumbering that starts one month before the leap month.
RenumberEarly(indices, i) ==
    [j \in 0..13 |-> IF j >= i - 1 THEN indices[j] - 1 ELSE indices[j]]

\* for j in i..14 { month_indices[j] -= 1 }
Renumber(indices, i) ==
    [j \in 0..13 |-> IF j >= i THEN indices[j] - 1 ELSE indices[j]]

\* determine_leap_month on the fields of a calculator
determine_leap_month(calc) ==
    IF calc.shuo[13] <= calc.jieqi[24]
    THEN LET i == LeapIndex(calc.shuo, calc.jieqi)
         IN [calc EXCEPT !.leap_month = SomeLeap(i),
                         !.month_indices = Renumber(@, i)]
    ELSE calc

\* the one element of a set of one element
TheOne(S) == CHOOSE x \in S : TRUE

\* The last two steps of calculate_lunar_year_months, once the base date,
\* the terms and the new moons are known.
MonthsAndLeap(calc, base, jie, sh) ==
    LET stored == [jieqi |-> jie.jieqi, pre_jieqi |-> jie.pre_jieqi,
                   shuo |-> sh,
                   month_indices |-> calc.month_indices,
                   month_lengths |->
                       calculate_month_properties(sh, calc.month_lengths),
                   leap_month |-> calc.leap_month]
    IN IF MonthPropertiesPanics
       THEN [calc |-> stored, base |-> base, pc |-> "panicked"]
       ELSE [calc |-> determine_leap_month(stored), base |-> base, pc |-> "done"]

\* calculate_lunar_year_months on the fields of a calculator: the fields it
\* leaves and whether it returned.  The base date, the terms and the new
\* moons are each computed once and handed on.
calculate_lunar_year_months(calc, julian_day) ==
    TheOne(UNION {UNION {{MonthsAndLeap(calc, base, jie, sh) :
                             sh \in {calculate_shuo(jie.jieqi)}} :
                         jie \in {calculate_jie(base)}} :
                  base \in {calculate_base_date(julian_day)}})

\* LunarPhaseCalculator::default()
DefaultCalculator ==
    [jieqi |-> [i \in 0..24 |-> 0], pre_jieqi |-> [i \in 0..1 |-> 0],
     shuo |-> [i \in 0..13 |-> 0],
     month_indices |-> [i \in 0..13 |-> 0],
     month_lengths |-> [i \in 0..13 |-> 0],
     leap_month |-> NoLeap]

NoPhase ==
    [op |-> "off", jd |-> 0, calc_type |-> "Qi",
     method |-> "HighPrecision", chain |-> "HighPrecision", result |-> 0]

\* #[derive(Default)]
Zeros(n) == [i \in 0..(n - 1) |-> 0]

\* The decompressed correction strings the build packs.
TableStrings == Strings(Digits, MaxTableLen)

CalculatorDefault ==
    /\ jieqi = Zeros(25) /\ pre_jieqi = Zeros(2) /\ shuo = Zeros(14)
    /\ month_indices = Zeros(14) /\ month_lengths = Zeros(14)
    /\ leap_month = NoLeap

CodecIdle ==
    /\ s = <<>> /\ packed = [bytes |-> <<>>, len |-> 0]
    /\ codecPc = "off" /\ decIndex = 0 /\ decResult = Returned(0)

LunarIdle ==
    /\ jieqi = <<>> /\ pre_jieqi = <<>> /\ shuo = <<>>
    /\ month_indices = <<>> /\ month_lengths = <<>> /\ leap_month = NoLeap
    /\ lunarPc = "off" /\ query = 0 /\ served = 0 /\ base_date = 0
    /\ phase = NoPhase
    /\ shuo_decompressed = <<>>
    /\ qi_decompressed = <<>>

NoSolver == [name |-> "off", iter |-> 0, diff |-> 0, pc |-> "off"]

PureIdle == fnArg = 0 /\ fnRet = 0 /\ fnPc = "off" /\ solver = NoSolver

Init == CacheInit /\ CodecIdle /\ LunarIdle /\ PureIdle
Next == CacheNext
Spec == Init /\ [][Next]_vars

CodecSpecInit == CodecInit /\ CacheInit /\ LunarIdle /\ PureIdle
CodecSpecNext == CodecNext
CodecSpec == CodecSpecInit /\ [][CodecSpecNext]_vars

-----------------------------------------------------------------------------
(* calculate_phase on its own: PhaseSpec *)

\* Query times around every boundary of the classification, as Julian days:
\* the two ends of the fit table, the 1960 cutoff, J2000, the middle of the
\* flat span, the starts and ends of the first periods counted from f2, and
\* a time ten days before the day of the special correction, whose new moon
\* falls on that day.
PhaseProbes(calc_type) ==
    LET f1 == FirstStart(calc_type)
        f2 == LastStart(calc_type)
        f3 == JD_1960_1_1_12_00_00
        step == IF calc_type = "Qi" THEN JIEQI_INTERVAL(1) + 1 ELSE LUNAR_MONTH_DAYS
    IN {f1 - 1, f1, (f1 + f2) \div 2, f2 - 1, f2, f3 - 1, f3, J2000,
        JD_MINUS_103_1_23_12_00_00 - Days(10)}
         \cup {get_fit_parameters(calc_type)[i].start_julian_day
                  - get_period_constant(calc_type) - e :
                    i \in DOMAIN get_fit_parameters(calc_type), e \in 0..1}
         \cup {f2 + k * step : k \in 0..(MaxTableLen + 1)}
         \cup {f2 + k * step - 1 : k \in 1..(MaxTableLen + 1)}

PhaseInit ==
    /\ CalculatorDefault
    /\ lunarPc = "idle" /\ query = 0 /\ served = 0 /\ base_date = 0
    /\ phase = NoPhase
    /\ shuo_decompressed \in TableStrings
    /\ qi_decompressed \in TableStrings

\* calculate_phase(jd, calc_type), with the branch the chain of
\* Sxtwl::calc_shuo / Sxtwl::calc_qi takes for the same time next to it.
CalculatePhase(jd, calc_type) ==
    /\ phase' = [op |-> "calculate_phase", jd |-> jd, calc_type |-> calc_type,
                 method |-> determine_calculation_method(jd + J2000, calc_type),
                 chain |-> calc_dispatch(jd + J2000, FirstStart(calc_type),
                                         LastStart(calc_type), JD_1960_1_1_12_00_00),
                 result |-> calculate_phase(jd, calc_type)]
    /\ UNCHANGED <<calcVars, lunarPc, query, served, base_date, shuo_decompressed, qi_decompressed>>
    /\ UNCHANGED <<cacheVars, codecVars, pureVars>>

PhaseNext ==
    \E calc_type \in CalculationTypes :
        \E probe \in PhaseProbes(calc_type) : CalculatePhase(probe - J2000, calc_type)

PhaseSpecInit == PhaseInit /\ CacheInit /\ CodecIdle /\ PureIdle
PhaseSpecNext == PhaseNext
PhaseSpec == PhaseSpecInit /\ [][PhaseSpecNext]_vars

-----------------------------------------------------------------------------
(* calculate_lunar_year_months: LunarSpec *)

\* Query times in days from J2000: in the modern regime on either side of the
\* fit tables, in the flat span of both quantities, where the new moons are
\* past their table and the terms are not, and where both are.
QueryDays ==
    {0, 3650, -1100000, -800000, -651545, -500000, -262831, -150000, -100000}

QueryTimes == {Days(d) : d \in QueryDays}

MaxQueries == 2

\* the fields of the calculator
Calculator ==
    [jieqi |-> jieqi, pre_jieqi |-> pre_jieqi, shuo |-> shuo,
     month_indices |-> month_indices, month_lengths |-> month_lengths,
     leap_month |-> leap_month]

\* The orchestrator, on a calculator that may have been called before
\* (a caller that catches the panic of a call keeps the calculator).
CalculateLunarYearMonths(julian_day) ==
    /\ served < MaxQueries
    /\ \E r \in {calculate_lunar_year_months(Calculator, julian_day)} :
          /\ query' = julian_day
          /\ served' = served + 1
          /\ base_date' = r.base
          /\ jieqi' = r.calc.jieqi
          /\ pre_jieqi' = r.calc.pre_jieqi
          /\ shuo' = r.calc.shuo
          /\ month_indices' = r.calc.month_indices
          /\ month_lengths' = r.calc.month_lengths
          /\ leap_month' = r.calc.leap_month
          /\ lunarPc' = r.pc
    /\ UNCHANGED <<phase, shuo_decompressed, qi_decompressed>>
    /\ UNCHANGED <<cacheVars, codecVars, pureVars>>

LunarNext == \E t \in QueryTimes : CalculateLunarYearMonths(t)

LunarSpecInit == PhaseInit /\ CacheInit /\ CodecIdle /\ PureIdle
LunarSpecNext == LunarNext
LunarSpec == LunarSpecInit /\ [][LunarSpecNext]_vars

-----------------------------------------------------------------------------
(* determine_leap_month on its own: LeapSpec *)

\* Fixtures: 25 terms at the nominal spacing; new moon i + 1, for i in
\* 1..12, either a day after term 2i or up to MaxSlackDays days before it (0
\* days: on it).  The month counters are the calculator's zeros or 0..13.
LeapTerms == [k \in 0..24 |-> JIEQI_INTERVAL(k)]

LeapMoons(later, slack) ==
    [i \in 0..13 |->
        IF i < 2 THEN LeapTerms[0] - Days(20) + LUNAR_MONTH_DAYS * i
        ELSE IF later[i - 1] THEN LeapTerms[2 * (i - 1)] + Days(1)
        ELSE LeapTerms[2 * (i - 1)] - Days(slack)]

Unadjusted == {Zeros(14), [i \in 0..13 |-> i]}

LeapInit ==
    /\ jieqi = LeapTerms /\ pre_jieqi = Zeros(2)
    /\ \E later \in [1..12 -> BOOLEAN] : \E slack \in 0..MaxSlackDays :
           shuo = LeapMoons(later, slack)
    /\ month_indices \in Unadjusted
    /\ month_lengths = Zeros(14)
    /\ leap_month = NoLeap
    /\ lunarPc = "leap" /\ query = 0 /\ served = 0 /\ base_date = 0
    /\ phase = NoPhase
    /\ shuo_decompressed = <<>> /\ qi_decompressed = <<>>

DetermineLeapMonth ==
    /\ lunarPc = "leap"
    /\ LET calc == determine_leap_month(Calculator)
       IN /\ leap_month' = calc.leap_month
          /\ month_indices' = calc.month_indices
    /\ lunarPc' = "done"
    /\ UNCHANGED <<jieqi, pre_jieqi, shuo, month_lengths, query, served,
                   base_date, phase, shuo_decompressed, qi_decompressed>>
    /\ UNCHANGED <<cacheVars, codecVars, pureVars>>

LeapSpecInit == LeapInit /\ CacheInit /\ CodecIdle /\ PureIdle
LeapSpecNext == DetermineLeapMonth
LeapSpec == LeapSpecInit /\ [][LeapSpecNext]_vars

-----------------------------------------------------------------------------
(* The solver loops: calculate_time_from_earth_longitude                   *)
(* (astronomy/planetary_orbits.rs), Astronomy::new_moon_jd (astronomy.rs)  *)
(* and JieQi::calc_jieqi_jd (jieqi.rs).  The model keeps the control of    *)
(* each loop as the code has it.  The residual a pass computes comes out   *)
(* of the ephemeris series; here it is any value of Residuals, counted in  *)
(* units of the convergence threshold of the loop.                         *)

MaxResidual == 3
Residuals == 0..MaxResidual

\* `for _ in 0..2` of calculate_time_from_earth_longitude
EARTH_ITERATIONS == 2
\* `while iter < 10` of new_moon_jd
NEW_MOON_ITERATIONS == 10
\* `const MAX_ITERATIONS: usize = 20` of calc_jieqi_jd
MAX_ITERATIONS == 20
\* diff.abs() < 0.0001 and delta.abs() < CONVERGENCE_THRESHOLD, with the
\* residual counted in units of the threshold
CONVERGENCE_THRESHOLD == 1

Solvers == {"calculate_time_from_earth_longitude", "new_moon_jd", "calc_jieqi_jd"}

\* the loop condition, left out of its range
InRangeInclusive(iter, end) == iter <= end
InRange(iter, end) == iter < end

Converged(diff) == diff < CONVERGENCE_THRESHOLD

SolverInit ==
    /\ solver \in {[name |-> n, iter |-> 0, diff |-> 0, pc |-> "loop"] : n \in Solvers}
    /\ fnArg = 0 /\ fnRet = 0 /\ fnPc = "off"

\* One pass of `for _ in 0..2 { time += residual / velocity }`, and after
\* the loop the final refinement and the return.
EarthLongitudePass ==
    /\ solver.name = "calculate_time_from_earth_longitude" /\ solver.pc = "loop"
    /\ \E d \in Residuals :
          IF InRange(solver.iter, EARTH_ITERATIONS)
          THEN solver' = [solver EXCEPT !.iter = @ + 1, !.diff = d]
          ELSE solver' = [solver EXCEPT !.diff = d, !.pc = "returned"]
    /\ UNCHANGED <<fnArg, fnRet, fnPc>>
    /\ UNCHANGED <<cacheVars, codecVars, lunarVars>>

\* One pass of `while iter < 10`: the difference of the longitudes is
\* computed and tested before the correction; the pass that finds it under
\* the threshold leaves the loop without counting.
NewMoonPass ==
    /\ solver.name = "new_moon_jd" /\ solver.pc = "loop"
    /\ IF InRange(solver.iter, NEW_MOON_ITERATIONS)
       THEN \E d \in Residuals :
               IF Converged(d)
               THEN solver' = [solver EXCEPT !.diff = d, !.pc = "returned"]
               ELSE solver' = [solver EXCEPT !.diff = d, !.iter = @ + 1]
       ELSE solver' = [solver EXCEPT !.pc = "returned"]
    /\ UNCHANGED <<fnArg, fnRet, fnPc>>
    /\ UNCHANGED <<cacheVars, codecVars, lunarVars>>

\* One pass of `for _ in 0..MAX_ITERATIONS`: the correction is applied and
\* the difference tested after it.
JieqiPass ==
    /\ solver.name = "calc_jieqi_jd" /\ solver.pc = "loop"
    /\ IF InRange(solver.iter, MAX_ITERATIONS)
       THEN \E d \in Residuals :
               IF Converged(d)
               THEN solver' = [solver EXCEPT !.diff = d, !.iter = @ + 1,
                                             !.pc = "returned"]
               ELSE solver' = [solver EXCEPT !.diff = d, !.iter = @ + 1]
       ELSE solver' = [solver EXCEPT !.pc = "returned"]
    /\ UNCHANGED <<fnArg, fnRet, fnPc>>
    /\ UNCHANGED <<cacheVars, codecVars, lunarVars>>

SolverSpecInit == SolverInit /\ CacheInit /\ CodecIdle /\ LunarIdle
SolverNext == EarthLongitudePass \/ NewMoonPass \/ JieqiPass
\* a call that has started runs on: nothing outside the loop can hold it
SolverSpec == SolverSpecInit /\ [][SolverNext]_vars /\ WF_vars(SolverNext)

-----------------------------------------------------------------------------
(* LegalHoliday::next (holiday.rs): HolidaySpec.  LEGAL_HOLIDAY_TABLE is   *)
(* generated by build.rs, one record for each 12 characters of a data      *)
(* string that the sources do not include.  from_ymd identifies a record   *)
(* by its day, so the model takes any table of MaxHolidays records or      *)
(* fewer with one record per day.  A day is a number standing for its      *)
(* year, month and day.                                                    *)

MaxHolidays == 3
MaxSteps == 3

\* Option<T>
OptNone == <<>>
OptSome(x) == <<x>>

HolidayDays == 1..MaxHolidays

LegalHolidayTables ==
    UNION {{t \in [1..len -> [day : HolidayDays, work : BOOLEAN]] :
               \A i, j \in 1..len : t[i].day = t[j].day => i = j}
           : len \in 1..MaxHolidays}

\* iter().position(..) and iter().find(..): the first record of the day, as
\* a 0-based position; -1 when there is none
RECURSIVE PositionFrom(_, _, _)
PositionFrom(table, day, i) ==
    IF i >= Len(table) THEN -1
    ELSE IF table[i + 1].day = day THEN i
    ELSE PositionFrom(table, day, i + 1)

position(table, day) == PositionFrom(table, day, 0)

\* LegalHoliday::from_ymd
LegalHoliday_from_ymd(table, day) ==
    LET found == position(table, day)
    IN IF found < 0 THEN OptNone
       ELSE OptSome([day |-> day, work |-> table[found + 1].work])

\* A next that steps the other way.
NextBackwards(table, self, n) ==
    IF n = 0 THEN OptSome(self)
    ELSE LET current_index == position(table, self.day)
         IN IF current_index < 0 THEN OptNone
            ELSE LET target_index == current_index - n
                 IN IF target_index < 0 \/ target_index >= Len(table)
                    THEN OptNone
                    ELSE LegalHoliday_from_ymd(table, table[target_index + 1].day)

\* LegalHoliday::next
LegalHoliday_next(table, self, n) ==
    IF n = 0 THEN OptSome(self)
    ELSE LET current_index == position(table, self.day)
         IN IF current_index < 0 THEN OptNone
            ELSE LET target_index == current_index + n
                 IN IF target_index < 0 \/ target_index >= Len(table)
                    THEN OptNone
                    ELSE LegalHoliday_from_ymd(table, table[target_index + 1].day)

\* A holiday is made by from_ymd only: the fields of LegalHoliday are private.
HolidayInit ==
    /\ \E table \in LegalHolidayTables : \E p \in 0..(Len(table) - 1) :
          \E n \in (-MaxSteps)..MaxSteps :
              fnArg = [fn |-> "LegalHoliday::next", table |-> table, p |-> p,
                       self |-> LegalHoliday_from_ymd(table, table[p + 1].day)[1],
                       n |-> n]
    /\ fnRet = OptNone /\ fnPc = "input" /\ solver = NoSolver

HolidayNext ==
    /\ fnPc = "input" /\ fnArg.fn = "LegalHoliday::next"
    /\ fnRet' = LegalHoliday_next(fnArg.table, fnArg.self, fnArg.n)
    /\ fnPc' = "returned"
    /\ UNCHANGED <<fnArg, solver>>
    /\ UNCHANGED <<cacheVars, codecVars, lunarVars>>

HolidaySpecInit == HolidayInit /\ CacheInit /\ CodecIdle /\ LunarIdle
HolidaySpecNext == HolidayNext
HolidaySpec == HolidaySpecInit /\ [][HolidaySpecNext]_vars

-----------------------------------------------------------------------------
(* GanZhi::from_index and GanZhi::to_index (ganzhi.rs): GanZhiSpec *)

MaxIndex == 130

\* const GAN: [TianGan; 10] and const ZHI: [DiZhi; 12]
GAN == <<"Jia", "Yi", "Bing", "Ding", "Wu", "Ji", "Geng", "Xin", "Ren", "Gui">>
ZHI == <<"Zi", "Chou", "Yin", "Mao", "Chen", "Si", "Wu", "Wei", "Shen", "You",
         "Xu", "Hai">>

TianGan_from_index(index) == GAN[(index % 10) + 1]
DiZhi_from_index(index) == ZHI[(index % 12) + 1]

\* the match of TianGan::to_index
TianGan_to_index(gan) ==
    CASE gan = "Jia" -> 0 [] gan = "Yi" -> 1 [] gan = "Bing" -> 2
      [] gan = "Ding" -> 3 [] gan = "Wu" -> 4 [] gan = "Ji" -> 5
      [] gan = "Geng" -> 6 [] gan = "Xin" -> 7 [] gan = "Ren" -> 8
      [] gan = "Gui" -> 9

\* the match of DiZhi::to_index
DiZhi_to_index(zhi) ==
    CASE zhi = "Zi" -> 0 [] zhi = "Chou" -> 1 [] zhi = "Yin" -> 2
      [] zhi = "Mao" -> 3 [] zhi = "Chen" -> 4 [] zhi = "Si" -> 5
      [] zhi = "Wu" -> 6 [] zhi = "Wei" -> 7 [] zhi = "Shen" -> 8
      [] zhi = "You" -> 9 [] zhi = "Xu" -> 10 [] zhi = "Hai" -> 11

\* GanZhi(TianGan, DiZhi)
GanZhi_from_index(index) ==
    LET idx == index % 60
        gan_index == idx % 10
        zhi_index == idx % 12
    IN <<TianGan_from_index(gan_index), DiZhi_from_index(zhi_index)>>

\* for i in 0..60 { if i % 10 == gan_index && i % 12 == zhi_index { return i } }
RECURSIVE IndexScan(_, _, _)
IndexScan(gan_index, zhi_index, i) ==
    IF i >= 60 THEN 0
    ELSE IF (i % 10 = gan_index) /\ (i % 12 = zhi_index) THEN i
    ELSE IndexScan(gan_index, zhi_index, i + 1)

\* A to_index that returns the first index of the stem alone.
ToIndexStemOnly(gz) == TianGan_to_index(gz[1])

GanZhi_to_index(gz) ==
    IndexScan(TianGan_to_index(gz[1]), DiZhi_to_index(gz[2]), 0)

GanZhiInit ==
    /\ \E n \in 0..MaxIndex : fnArg = [fn |-> "GanZhi::from_index", index |-> n]
    /\ fnRet = 0 /\ fnPc = "input" /\ solver = NoSolver

\* GanZhi::from_index(n).to_index()
GanZhiRoundTrip ==
    /\ fnPc = "input" /\ fnArg.fn = "GanZhi::from_index"
    /\ LET gz == GanZhi_from_index(fnArg.index)
       IN fnRet' = [ganzhi |-> gz, index |-> GanZhi_to_index(gz)]
    /\ fnPc' = "returned"
    /\ UNCHANGED <<fnArg, solver>>
    /\ UNCHANGED <<cacheVars, codecVars, lunarVars>>

GanZhiSpecInit == GanZhiInit /\ CacheInit /\ CodecIdle /\ LunarIdle
GanZhiSpecNext == GanZhiRoundTrip
GanZhiSpec == GanZhiSpecInit /\ [][GanZhiSpecNext]_vars

-----------------------------------------------------------------------------
(* From<SolarDate> for JulianDay and From<JulianDay> for SolarDate         *)
(* (julian.rs): JulianSpec.  A Julian day is counted in hours, so that the *)
(* half day of the conversions and the hour of a SolarDate are whole       *)
(* numbers; minute and second are 0.                                       *)

HoursPerDay == 24

\* i32 division truncates toward zero
TruncDiv(a, b) == IF a >= 0 THEN a \div b ELSE -((-a) \div b)

\* A switch to the Gregorian calendar that starts a day late.
IsGregorianFromThe16th(solar) ==
    \/ solar.year > 1582
    \/ (solar.year = 1582 /\ solar.month > 10)
    \/ (solar.year = 1582 /\ solar.month = 10 /\ solar.day >= 16)

\* the test for a date of the Gregorian calendar, from 1582-10-15
IsGregorian(solar) ==
    \/ solar.year > 1582
    \/ (solar.year = 1582 /\ solar.month > 10)
    \/ (solar.year = 1582 /\ solar.month = 10 /\ solar.day >= 15)

\* From<SolarDate> for JulianDay, in hours:
\* floor(365.25 * (y + 4716)) + floor(30.6001 * (m + 1)) + d + b - 1524.5
JulianDay_from(solar) ==
    LET y == IF solar.month <= 2 THEN solar.year - 1 ELSE solar.year
        m == IF solar.month <= 2 THEN solar.month + 12 ELSE solar.month
        b == IF IsGregorian(solar)
             THEN LET a == TruncDiv(y, 100) IN 2 - a + TruncDiv(a, 4)
             ELSE 0
        whole == ((1461 * (y + 4716)) \div 4) + ((306001 * (m + 1)) \div 10000)
                    + solar.day + b - 1524
    IN whole * HoursPerDay + solar.hour - (HoursPerDay \div 2)

\* From<JulianDay> for SolarDate, of a Julian day in hours
SolarDate_from(jd) ==
    LET shifted == jd + (HoursPerDay \div 2)
        z == shifted \div HoursPerDay
        f == shifted - z * HoursPerDay
        a == IF z < 2299161 THEN z
             ELSE LET alpha == (100 * z - 186721625) \div 3652425
                  IN z + 1 + alpha - (alpha \div 4)
        b == a + 1524
        c == (100 * b - 12210) \div 36525
        d == (1461 * c) \div 4
        e == ((b - d) * 10000) \div 306001
        day == b - d - ((306001 * e) \div 10000)
        month == IF e < 14 THEN e - 1 ELSE e - 13
        year == IF month > 2 THEN c - 4716 ELSE c - 4715
    IN [year |-> year, month |-> month, day |-> day, hour |-> f]

\* The years the conversions are called for: before the Julian day 0, the
\* negative years, the years around 0, the year of the reform and its
\* neighbours, century years and common and leap years of both calendars.
ProbeYears ==
    {-4800, -4713, -4712, -101, -100, -1, 0, 1, 4, 100, 1500, 1581, 1582,
     1583, 1600, 1700, 1900, 2000, 2023, 2024}

ProbeHours == {0, 6, 12, 23}

\* leap years: every fourth year in the Julian calendar, the Gregorian rule
\* after 1582
IsLeapYear(year) ==
    IF year <= 1582 THEN year % 4 = 0
    ELSE year % 4 = 0 /\ (year % 100 # 0 \/ year % 400 = 0)

DaysInMonth(year, month) ==
    CASE month \in {1, 3, 5, 7, 8, 10, 12} -> 31
      [] month \in {4, 6, 9, 11} -> 30
      [] OTHER -> IF IsLeapYear(year) THEN 29 ELSE 28

\* the dates of the calendar: 1582-10-05 .. 1582-10-14 do not exist
ValidDates ==
    {sd \in [year : ProbeYears, month : 1..12, day : 1..31, hour : ProbeHours] :
        /\ sd.day <= DaysInMonth(sd.year, sd.month)
        /\ ~(sd.year = 1582 /\ sd.month = 10 /\ sd.day \in 5..14)}

JulianInit ==
    /\ \E sd \in ValidDates : fnArg = [fn |-> "JulianDay::from", solar |-> sd]
    /\ fnRet = 0 /\ fnPc = "input" /\ solver = NoSolver

\* let jd: JulianDay = solar.into(); let converted: SolarDate = jd.into();
JulianRoundTrip ==
    /\ fnPc = "input" /\ fnArg.fn = "JulianDay::from"
    /\ LET jd == JulianDay_from(fnArg.solar)
       IN fnRet' = [jd |-> jd, converted |-> SolarDate_from(jd)]
    /\ fnPc' = "returned"
    /\ UNCHANGED <<fnArg, solver>>
    /\ UNCHANGED <<cacheVars, codecVars, lunarVars>>

JulianSpecInit == JulianInit /\ CacheInit /\ CodecIdle /\ LunarIdle
JulianSpecNext == JulianRoundTrip
JulianSpec == JulianSpecInit /\ [][JulianSpecNext]_vars

-----------------------------------------------------------------------------
(* The series evaluation: calculate_planet_coordinate                      *)
(* (astronomy/planetary_orbits.rs) and Sxtwl::elon (sxtwl/mod.rs), called  *)
(* for all terms (term_count < 0): SeriesSpec.  A table is its header of   *)
(* seven indices, which bound the terms of the orders 0..5, and its terms; *)
(* a term stands for the value amplitude * cos(phase + t * frequency) it   *)
(* contributes, taken as 1, and takes one place of the table instead of    *)
(* three.  The model stops at the end of the loop over the orders, before  *)
(* the division by coefficients[0] and the corrections.                    *)

MaxTerms == 1
MaxT == 3

Orders == 0..5

\* the header of a table whose order i has count[i] terms: header[i] is the
\* place of the first term of order i, header[6] the place after the last
RECURSIVE HeaderFrom(_, _)
HeaderFrom(count, i) ==
    IF i = 0 THEN 7 ELSE HeaderFrom(count, i - 1) + count[i - 1]

SeriesTables ==
    {[header |-> [i \in 0..6 |-> HeaderFrom(count, i)],
      term |-> [j \in 7..(HeaderFrom(count, 6) - 1) |-> 1]] :
        count \in [Orders -> 0..MaxTerms]}

\* let mut sum = 0.0; while j < terms_to_use { sum += ...; j += 3 }
RECURSIVE TermSum(_, _, _)
TermSum(table, j, terms_to_use) ==
    IF j < terms_to_use
    THEN table.term[j] + TermSum(table, j + 1, terms_to_use)
    ELSE 0

\* one pass of `for i in 0..6` of calculate_planet_coordinate
PlanetOrder(table, t, i, acc) ==
    LET start_index == table.header[i]
        end_index == table.header[i + 1]
    IN IF start_index = end_index
       THEN [acc EXCEPT !.t_power = @ * t]
       ELSE [result |-> acc.result
                          + TermSum(table, start_index, end_index) * acc.t_power,
             t_power |-> acc.t_power * t]

RECURSIVE PlanetLoop(_, _, _)
PlanetLoop(table, t, i) ==
    IF i = 0 THEN [result |-> 0, t_power |-> 1]
    ELSE PlanetOrder(table, t, i - 1, PlanetLoop(table, t, i - 1))

calculate_planet_coordinate(table, t) == PlanetLoop(table, t, 6).result

\* one pass of `for i in 0..6` of Sxtwl::elon: an empty order goes on to the
\* next pass at once
ElonOrder(table, t, i, acc) ==
    LET n1 == table.header[i]
        n2 == table.header[i + 1]
        n0 == n2 - n1
    IN IF n0 = 0
       THEN acc
       ELSE [v |-> acc.v + TermSum(table, n1, n2) * acc.tn,
             tn |-> acc.tn * t]

RECURSIVE ElonLoop(_, _, _)
ElonLoop(table, t, i) ==
    IF i = 0 THEN [v |-> 0, tn |-> 1]
    ELSE ElonOrder(table, t, i - 1, ElonLoop(table, t, i - 1))

elon(table, t) == ElonLoop(table, t, 6).v

SeriesInit ==
    /\ \E table \in SeriesTables : \E t \in 2..MaxT :
          fnArg = [fn |-> "series", table |-> table, t |-> t]
    /\ fnRet = 0 /\ fnPc = "input" /\ solver = NoSolver

CalculatePlanetCoordinate ==
    /\ fnPc = "input" /\ fnArg.fn = "series"
    /\ fnRet' = [fn |-> "calculate_planet_coordinate",
                 sum |-> calculate_planet_coordinate(fnArg.table, fnArg.t)]
    /\ fnPc' = "returned"
    /\ UNCHANGED <<fnArg, solver>>
    /\ UNCHANGED <<cacheVars, codecVars, lunarVars>>

Elon ==
    /\ fnPc = "input" /\ fnArg.fn = "series"
    /\ fnRet' = [fn |-> "elon", sum |-> elon(fnArg.table, fnArg.t)]
    /\ fnPc' = "returned"
    /\ UNCHANGED <<fnArg, solver>>
    /\ UNCHANGED <<cacheVars, codecVars, lunarVars>>

SeriesSpecInit == SeriesInit /\ CacheInit /\ CodecIdle /\ LunarIdle
SeriesNext == CalculatePlanetCoordinate \/ Elon
SeriesSpec == SeriesSpecInit /\ [][SeriesNext]_vars

-----------------------------------------------------------------------------
(* RabByungYear::from_year followed by RabByungYear::get_year              *)
(* (rabbyung.rs): RabByungSpec.  A Result is <<>> for Err and <<year       *)
(* object>> for Ok.  The module sixtycycle is not among the sources: a     *)
(* SixtyCycle is taken for its index in the cycle of sixty, and            *)
(* SixtyCycle::from_index for the index modulo 60.                         *)

MaxYearOffset == 70

\* SixtyCycle::from_index(index).get_index()
SixtyCycle_from_index(index) == index % 60

\* RabByungYear::new
RabByungYear_new(rab_byung_index, sixty_cycle) ==
    IF rab_byung_index < 0 \/ rab_byung_index > 150
    THEN <<>>
    ELSE <<[rab_byung_index |-> rab_byung_index, sixty_cycle |-> sixty_cycle]>>

\* RabByungYear::from_sixty_cycle
RabByungYear_from_sixty_cycle(rab_byung_index, sixty_cycle) ==
    RabByungYear_new(rab_byung_index, sixty_cycle)

\* RabByungYear::from_year; isize division truncates toward zero
RabByungYear_from_year(year) ==
    RabByungYear_from_sixty_cycle(TruncDiv(year - 1024, 60),
                                  SixtyCycle_from_index(year - 4))

\* RabByungYear::get_year
RabByungYear_get_year(self) ==
    1024 + self.rab_byung_index * 60 + self.sixty_cycle

\* years around the first year of the first cycle and around the first year
\* after the last cycle
RabByungYears ==
    {1024 + d : d \in (0 - MaxYearOffset)..MaxYearOffset}
        \cup {1024 + 151 * 60 + d : d \in -2..2}

RabByungInit ==
    /\ \E year \in RabByungYears :
          fnArg = [fn |-> "RabByungYear::from_year", year |-> year]
    /\ fnRet = 0 /\ fnPc = "input" /\ solver = NoSolver

FromYear ==
    /\ fnPc = "input" /\ fnArg.fn = "RabByungYear::from_year"
    /\ fnRet' = [result |-> RabByungYear_from_year(fnArg.year), year |-> 0]
    /\ fnPc' = "from_year"
    /\ UNCHANGED <<fnArg, solver>>
    /\ UNCHANGED <<cacheVars, codecVars, lunarVars>>

GetYear ==
    /\ fnPc = "from_year" /\ fnRet.result # <<>>
    /\ fnRet' = [fnRet EXCEPT !.year = RabByungYear_get_year(fnRet.result[1])]
    /\ fnPc' = "get_year"
    /\ UNCHANGED <<fnArg, solver>>
    /\ UNCHANGED <<cacheVars, codecVars, lunarVars>>

RabByungSpecInit == RabByungInit /\ CacheInit /\ CodecIdle /\ LunarIdle
RabByungNext == FromYear \/ GetYear
RabByungSpec == RabByungSpecInit /\ [][RabByungNext]_vars

-----------------------------------------------------------------------------
(* JieQi::to_index and JieQi::from_index (jieqi.rs, types.rs): JieQiSpec  *)

\* enum JieQi, in the order of its declaration
JieQi ==
    <<"DongZhi", "XiaoHan", "DaHan", "LiChun", "YuShui", "JingZhe",
      "ChunFen", "QingMing", "GuYu", "LiXia", "XiaoMan", "MangZhong",
      "XiaZhi", "XiaoShu", "DaShu", "LiQiu", "ChuShu", "BaiLu",
      "QiuFen", "HanLu", "ShuangJiang", "LiDong", "XiaoXue", "DaXue">>

\* the arms 0..23 of the match of JieQi::from_index
FromIndexArms ==
    <<"LiChun", "YuShui", "JingZhe", "ChunFen", "QingMing", "GuYu",
      "LiXia", "XiaoMan", "MangZhong", "XiaZhi", "XiaoShu", "DaShu",
      "LiQiu", "ChuShu", "BaiLu", "QiuFen", "HanLu", "ShuangJiang",
      "LiDong", "XiaoXue", "DaXue", "DongZhi", "XiaoHan", "DaHan">>

\* self as u8: the place of the variant in the declaration, from 0
JieQi_to_index(self) == (CHOOSE i \in DOMAIN JieQi : JieQi[i] = self) - 1

\* JieQi::from_index: <<>> is None, <<x>> is Some(x)
JieQi_from_index(index) ==
    IF index \in 0..23 THEN <<FromIndexArms[index + 1]>> ELSE <<>>

JieQiInit ==
    /\ \/ \E x \in {JieQi[i] : i \in DOMAIN JieQi} :
             fnArg = [fn |-> "JieQi::to_index", jieqi |-> x]
       \/ \E index \in 0..MaxIndex :
             fnArg = [fn |-> "JieQi::from_index", index |-> index]
    /\ fnRet = 0 /\ fnPc = "input" /\ solver = NoSolver

\* JieQi::from_index(x.to_index())
JieQiToIndexFromIndex ==
    /\ fnPc = "input" /\ fnArg.fn = "JieQi::to_index"
    /\ LET index == JieQi_to_index(fnArg.jieqi)
       IN fnRet' = [index |-> index, jieqi |-> JieQi_from_index(index)]
    /\ fnPc' = "returned"
    /\ UNCHANGED <<fnArg, solver>>
    /\ UNCHANGED <<cacheVars, codecVars, lunarVars>>

\* JieQi::from_index(i).map(|x| x.to_index())
JieQiFromIndexToIndex ==
    /\ fnPc = "input" /\ fnArg.fn = "JieQi::from_index"
    /\ LET x == JieQi_from_index(fnArg.index)
       IN fnRet' = [jieqi |-> x,
                    index |-> IF x = <<>> THEN <<>>
                              ELSE <<JieQi_to_index(x[1])>>]
    /\ fnPc' = "returned"
    /\ UNCHANGED <<fnArg, solver>>
    /\ UNCHANGED <<cacheVars, codecVars, lunarVars>>

JieQiSpecInit == JieQiInit /\ CacheInit /\ CodecIdle /\ LunarIdle
JieQiNext == JieQiToIndexFromIndex \/ JieQiFromIndexToIndex
JieQiSpec == JieQiSpecInit /\ [][JieQiNext]_vars

-----------------------------------------------------------------------------
(* Claims about the cache, checked under Spec *)

GocLookup(op) == op \in {"goc_hit", "goc_miss"}
Insertion(op) == op \in {"insert", "goc_return"}

C10_EvictsOldest ==
    [][(Insertion(last'.op) /\ Full(entries))
        => \E i \in Slots :
              /\ \A j \in Slots :
                    entries[i].access_count <= entries[j].access_count
              /\ entries' = [entries EXCEPT ![i] =
                    [key |-> last'.key, data |-> last'.data,
                     access_count |-> lru_counter]]]_vars

\* An insert has just evicted from a full cache whose slots carried different
\* access-generations.
C10_Witness ==
    /\ last.op = "insert" /\ last.flag
    /\ \E i, j \in Slots : entries[i].access_count < entries[j].access_count

\* C11, as stated: over any sequence of cache operations by any number of
\* callers the access counter never decreases.
C11_AsStated == [][lru_counter' >= lru_counter]_vars

\* C11, amended: the access counter never decreases in a step of get,
\* insert, get_or_compute, len or is_empty; a clear sets it to 0.
C11_OnlyClearResets ==
    [][/\ last'.op # "clear" => lru_counter' >= lru_counter
       /\ last'.op = "clear" => lru_counter' = 0]_vars

\* C11, its case: a hit has raised the counter.
C11_Witness ==
    last.op \in {"get", "goc_hit"} /\ last.data # None /\ lru_counter >= 1

\* a slot of the cache holds the key
Holds(es, key) == \E i \in Slots : IsSome(es[i]) /\ es[i].key = key

\* the running get_or_compute of the thread has invoked its closure
Invoked(t) == pc[t] = "insert"

\* C19, as stated: of the concurrent get_or_compute calls for one key that
\* the cache does not hold, at most one invokes its closure.
C19_AsStated ==
    \A t, u \in Threads :
        (t # u /\ Invoked(t) /\ Invoked(u) /\ ~Holds(entries, tkey[t]))
            => tkey[t] # tkey[u]

\* C19, amended: a get_or_compute call invokes its closure only after its
\* own lookup found the key absent, and once; a call whose lookup hits
\* invokes none.  Concurrent calls that all miss invoke one closure each.
C19_OncePerMissingCall ==
    [][/\ last'.op = "compute" =>
             \E t \in Threads :
                 /\ pc[t] = "compute" /\ pc'[t] = "insert"
                 /\ tkey[t] = last'.key
                 /\ \A u \in Threads \ {t} : pc'[u] = pc[u]
       /\ \A t \in Threads :
             (pc'[t] = "compute" /\ pc[t] # "compute") =>
                 /\ pc[t] = "idle" /\ last'.op = "goc_miss"
                 /\ ~Holds(entries, last'.key)
       /\ \A t \in Threads : pc[t] = "insert" => pc'[t] # "compute"
       /\ last'.op = "goc_hit" => pc' = pc]_vars

\* C19, its case: two callers have both missed the same key and both have
\* invoked their closure, before either has stored its result.
C19_Witness ==
    /\ Invoked("t1") /\ Invoked("t2") /\ tkey["t1"] = tkey["t2"]
    /\ ~Holds(entries, tkey["t1"])
    /\ tdata["t1"] # tdata["t2"]

\* the cache holds the key in an occupied slot
HeldKey(es, k) == \E i \in Slots : IsSome(es[i]) /\ es[i].key = k

\* C26: a get for a key the cache holds returns a copy of a value held under
\* that key, increases the access counter by exactly one and changes no
\* slot's key, value or access-generation; a get for a key the cache does not
\* hold returns nothing and changes neither the counter nor a slot.
C26_GetReadsOnly ==
    [][last'.op = "get" =>
          /\ entries' = entries
          /\ IF HeldKey(entries, last'.key)
             THEN /\ \E i \in Slots : /\ IsSome(entries[i])
                                      /\ entries[i].key = last'.key
                                      /\ last'.data = entries[i].data
                  /\ lru_counter' = lru_counter + 1
             ELSE /\ last'.data = None
                  /\ lru_counter' = lru_counter]_vars

\* C26, its case: a get has hit a key held by a full cache.
C26_Witness ==
    /\ last.op = "get" /\ last.data # None
    /\ HeldKey(entries, last.key) /\ Full(entries)

\* C27, as stated: no two occupied slots of the cache hold the same key.
C27_AsStated ==
    \A i, j \in Slots :
        (IsSome(entries[i]) /\ IsSome(entries[j]) /\ i # j)
            => entries[i].key # entries[j].key

-----------------------------------------------------------------------------
(* Claims about the codec, checked under CodecSpec *)

\* the symbol a digit character stands for
SymbolOf(ch) == IF ch = "0" THEN 0 ELSE IF ch = "1" THEN 1 ELSE 2
OverDigits(str) == \A i \in 1..Len(str) : str[i] \in Digits

\* C3: for a sequence of symbols from {0,1,2}, packing it and decoding an
\* index i below its length returns the i-th symbol.
C3_RoundTrip ==
    (codecPc = "decoded" /\ OverDigits(s) /\ decIndex < Len(s))
        => decResult = Returned(SymbolOf(s[decIndex + 1]))

\* The last symbol of a five-symbol sequence, the one in the partial second
\* byte, was decoded and is not 0.
C3_Witness ==
    /\ codecPc = "decoded" /\ OverDigits(s) /\ Len(s) = 5
    /\ decIndex = 4 /\ decResult.value = 2

\* C4: decoding an index at or beyond the table's logical symbol count
\* returns 0 and does not fail, inside the last partial byte or beyond the
\* bytes.
C4_OutOfRangeIsZero ==
    (codecPc = "decoded" /\ decIndex >= packed.len) => decResult = Returned(0)

\* An index beyond the length that still falls inside the last byte, whose
\* earlier fields are not 0, was decoded.
C4_Witness ==
    /\ codecPc = "decoded" /\ decIndex >= packed.len
    /\ decIndex < 4 * Len(packed.bytes)
    /\ packed.bytes # <<>> /\ packed.bytes[Len(packed.bytes)] # 0

\* The 2-bit field j (0 the most significant) of a byte.
Field(byte, j) == BitAnd(Shr8(byte, 6 - 2 * j), 3)

\* C12: for every input string, every 2-bit field the packer wrote, the
\* unused fields of a last partial byte included, holds 0, 1 or 2, and a
\* decode of any index of the table does not return 3.
C12_NoFieldIsThree ==
    /\ codecPc \in {"packed", "decoded"} =>
          \A b \in 1..Len(packed.bytes) : \A j \in 0..3 :
              Field(packed.bytes[b], j) \in {0, 1, 2}
    /\ codecPc = "decoded" => decResult.value \in {0, 1, 2}

\* C12, its case: a string with a character the packer does not know and a
\* last byte that is not full, packed and decoded at the unknown character.
C12_Witness ==
    /\ codecPc = "decoded" /\ ~decResult.panic
    /\ Len(s) = 5 /\ s[5] = "x" /\ decIndex = 4
    /\ Len(packed.bytes) = 2

-----------------------------------------------------------------------------
(* Claims about calculate_phase, checked under PhaseSpec *)

Calculated == phase.op = "calculate_phase"

\* C2: for every query time and for both quantities the classification
\* selects one of the three regimes, in determine_calculation_method and in
\* the chain of Sxtwl::calc_shuo / Sxtwl::calc_qi alike: no time passes
\* through the dispatch unhandled.
C2_OneOfThreeRegimes ==
    Calculated => (phase.method \in Regimes /\ phase.chain \in Regimes)

\* C2, its case: a query exactly at the start of the last fit segment, the
\* time only the last branch of the chain takes.
C2_Witness ==
    /\ Calculated
    /\ phase.jd + J2000 = LastStart(phase.calc_type)
    /\ phase.method = "FixedPhase" /\ phase.chain = "FixedPhase"

\* The symbol the correction string of the quantity holds for a Julian day.
HeldSymbol(jd, calc_type) ==
    LET str == IF calc_type = "Qi" THEN qi_decompressed ELSE shuo_decompressed
        index == IF calc_type = "Qi" THEN QiIndex(jd, LastStart(calc_type))
                 ELSE ShuoIndex(jd, LastStart(calc_type))
    IN IF index < Len(str) THEN SymbolOf(str[index + 1]) ELSE 0

\* C9: in the fixed regime the returned day is the uncorrected estimate plus
\* one day when the correction symbol for the query is 1, minus one day when
\* it is 2, and the estimate itself when it is 0.
C9_CorrectionApplied ==
    (Calculated /\ phase.method = "FixedPhase") =>
        LET jd == phase.jd + J2000
            estimate == calculate_high_precision(jd, phase.calc_type)
            symbol == HeldSymbol(jd, phase.calc_type)
        IN /\ symbol = 1 => phase.result = estimate + Days(1)
           /\ symbol = 2 => phase.result = estimate - Days(1)
           /\ symbol = 0 => phase.result = estimate

\* C9, its case: a fixed-regime new moon whose symbol is 2 comes back a day
\* before its estimate.
C9_Witness ==
    /\ Calculated /\ phase.method = "FixedPhase" /\ phase.calc_type = "Shuo"
    /\ HeldSymbol(phase.jd + J2000, "Shuo") = 2
    /\ phase.result = calculate_high_precision(phase.jd + J2000, "Shuo") - Days(1)

C21_AsStated ==
    (Calculated /\ phase.method = "FlatPhase") =>
        LET rounded == FlatRounded(phase.jd + J2000, phase.calc_type)
        IN IF Floor(rounded) = JD_MINUS_103_1_23_12_00_00
           THEN phase.result = rounded + Days(1) - J2000
           ELSE phase.result = rounded - J2000

-----------------------------------------------------------------------------
(* Claims about determine_leap_month, checked under LeapSpec *)

\* C5: whenever the 14th new moon is at or before the 25th solar term, the
\* reported leap index is the smallest i >= 1 whose new moon i + 1 is not
\* later than solar term 2i.
C5_SmallestIndex ==
    (lunarPc = "done" /\ shuo[13] <= jieqi[24]) =>
        \E i \in 1..12 :
            /\ leap_month = SomeLeap(i)
            /\ shuo[i + 1] <= jieqi[2 * i]
            /\ \A k \in 1..(i - 1) : shuo[k + 1] > jieqi[2 * k]

\* C5, its case: the scan stops at 6 on a new moon that falls on its term.
C5_Witness ==
    /\ lunarPc = "done" /\ shuo[13] <= jieqi[24]
    /\ leap_month = SomeLeap(6) /\ shuo[7] = jieqi[12]

\* C6: leap determination that yields the leap index L leaves the month
\* counter at every position L+1..13 one less than it was before.
C6_LaterMonthsDecremented ==
    [][(lunarPc = "leap" /\ lunarPc' = "done" /\ leap_month' # NoLeap) =>
          \A j \in (leap_month'[1] + 1)..13 :
              month_indices'[j] = month_indices[j] - 1]_vars

\* C6, its case: leap index 6 on counters that started as 0..13; months 7
\* to 13 then read 6 to 12.
C6_Witness ==
    /\ lunarPc = "done" /\ leap_month = SomeLeap(6)
    /\ \A j \in 7..13 : month_indices[j] = j - 1

LeapDetermined == lunarPc = "leap" /\ lunarPc' = "done"

\* C28, as stated: leap determination that yields the leap index L leaves the
\* month counters of positions 0 through L at their unadjusted values; when
\* it yields no leap month it changes no counter.
C28_AsStated ==
    [][LeapDetermined =>
          IF leap_month' # NoLeap
          THEN \A j \in 0..leap_month'[1] :
                   month_indices'[j] = month_indices[j]
          ELSE month_indices' = month_indices]_vars

\* C28, amended: leap determination that yields the leap index L leaves the
\* month counters of positions 0 through L - 1 at their unadjusted values and
\* takes one from the counter of position L, the leap month itself; when it
\* yields no leap month it changes no counter.
C28_MonthsBeforeLeapUnchanged ==
    [][LeapDetermined =>
          IF leap_month' # NoLeap
          THEN /\ \A j \in 0..(leap_month'[1] - 1) :
                      month_indices'[j] = month_indices[j]
               /\ month_indices'[leap_month'[1]]
                      = month_indices[leap_month'[1]] - 1
          ELSE month_indices' = month_indices]_vars

\* C28, its case: leap index 6 on counters that started as 0..13; months 0
\* to 5 read 0 to 5 and the leap month reads 5.
C28_Witness ==
    /\ lunarPc = "done" /\ leap_month = SomeLeap(6)
    /\ \A j \in 0..5 : month_indices[j] = j
    /\ month_indices[6] = 5

-----------------------------------------------------------------------------
(* Claims about calculate_lunar_year_months, checked under LunarSpec *)

\* C7, as stated: after the orchestrator has run for a query time, the 25
\* solar terms are strictly increasing.
C7_AsStated ==
    lunarPc = "panicked" => \A i \in 0..23 : jieqi[i] < jieqi[i + 1]

\* C8, as stated: after the orchestrator has run for a query time, the 14
\* new moons are strictly increasing.
C8_AsStated ==
    lunarPc = "panicked" => \A i \in 0..12 : shuo[i] < shuo[i + 1]

\* C23, as stated: for every query time t the winter solstice computed for
\* the base date of the call is not after t.
C23_AsStated ==
    served >= 1 => calculate_phase(base_date, "Qi") <= query

C20_AsStated ==
    served >= 1 =>
        /\ lunarPc = "done"
        /\ \A i \in 0..12 : month_lengths[i] = shuo[i + 1] - shuo[i]

-----------------------------------------------------------------------------
(* Claims about the solver loops, checked under SolverSpec *)

\* the number of passes a loop is allowed
Allowed(name) ==
    CASE name = "calculate_time_from_earth_longitude" -> EARTH_ITERATIONS
      [] name = "new_moon_jd" -> NEW_MOON_ITERATIONS
      [] name = "calc_jieqi_jd" -> MAX_ITERATIONS

-----------------------------------------------------------------------------
(* Claims about GanZhi, checked under GanZhiSpec *)

\* C16: GanZhi::from_index(n).to_index() is n for n in 0..59 and n mod 60
\* for every n >= 0.
C16_IndexRoundTrip ==
    fnPc = "returned" =>
        /\ fnRet.index = fnArg.index % 60
        /\ fnArg.index \in 0..59 => fnRet.index = fnArg.index

\* C16, its cases: the index 59 and the index 100, which comes back as 40.
C16_Witness ==
    /\ fnPc = "returned"
    /\ \/ fnArg.index = 59 /\ fnRet.index = 59
       \/ fnArg.index = 100 /\ fnRet.index = 40 /\ fnRet.ganzhi = <<"Jia", "Chen">>

-----------------------------------------------------------------------------
(* Claims about the Julian day conversions, checked under JulianSpec *)

-----------------------------------------------------------------------------
(* Claims about LegalHoliday::next, checked under HolidaySpec *)

\* the holiday a record of the table stands for
HolidayAt(table, i) == [day |-> table[i + 1].day, work |-> table[i + 1].work]

\* C18: for the holiday at position p of the table and any n, next(n) is
\* the holiday at position p + n when 0 <= p + n < the length of the table
\* and None otherwise; next(0) is the holiday itself.
C18_NextIsPositionPlusN ==
    fnPc = "returned" =>
        LET target == fnArg.p + fnArg.n
        IN /\ (0 <= target /\ target < Len(fnArg.table))
                 => fnRet = OptSome(HolidayAt(fnArg.table, target))
           /\ ~(0 <= target /\ target < Len(fnArg.table)) => fnRet = OptNone
           /\ fnArg.n = 0 => fnRet = OptSome(fnArg.self)

\* C18, its cases: a step back from the middle of a table of three that lands
\* on its first record, and a step past its end.
C18_Witness ==
    /\ fnPc = "returned" /\ Len(fnArg.table) = 3
    /\ \/ fnArg.p = 1 /\ fnArg.n = -1 /\ fnRet # OptNone
       \/ fnArg.p = 1 /\ fnArg.n = 2 /\ fnRet = OptNone

\* C25: in the flat regime the scan of calculate_flat_phase ends on the one
\* segment i with start_i <= t + phase_const < start_(i+1), and it reads no
\* place beyond the end of the fit table.
C25_UniqueSegmentInRange ==
    (Calculated /\ phase.method = "FlatPhase") =>
        LET params == get_fit_parameters(phase.calc_type)
            x == phase.jd + J2000 + get_period_constant(phase.calc_type)
            i == SegmentScan(params, x, 1)
            Holds25(j) == /\ params[j].start_julian_day <= x
                          /\ x < params[j + 1].start_julian_day
        IN /\ i \in 1..(Len(params) - 1)
           /\ Holds25(i)
           /\ \A j \in 1..(Len(params) - 1) : Holds25(j) => j = i
           /\ ScanReads(params, x, 1) \cup {i} \subseteq DOMAIN params

\* a flat-regime instant that lies on the start of a segment after the first
C25_Witness ==
    /\ Calculated /\ phase.method = "FlatPhase"
    /\ LET params == get_fit_parameters(phase.calc_type)
           x == phase.jd + J2000 + get_period_constant(phase.calc_type)
       IN /\ SegmentScan(params, x, 1) > 1
          /\ x = params[SegmentScan(params, x, 1)].start_julian_day

-----------------------------------------------------------------------------
(* Claims about the series evaluation, checked under SeriesSpec *)

RECURSIVE Power(_, _)
Power(t, n) == IF n = 0 THEN 1 ELSE t * Power(t, n - 1)

\* the sum of the terms of every order n, weighted by t to the power n
RECURSIVE WeightedSum(_, _, _)
WeightedSum(table, t, n) ==
    IF n < 0 THEN 0
    ELSE WeightedSum(table, t, n - 1)
           + TermSum(table, table.header[n], table.header[n + 1]) * Power(t, n)

\* C24, as stated: an empty order adds nothing and still advances the power
\* of t, so the sum of order n is weighted by t to the power n however many
\* lower orders are empty.
C24_AsStated ==
    fnPc = "returned" => fnRet.sum = WeightedSum(fnArg.table, fnArg.t, 5)

-----------------------------------------------------------------------------
(* Claims about RabByungYear::from_year, checked under RabByungSpec *)

\* C29, as stated: for every year y, RabByungYear::from_year(y) returns an
\* error or a year object whose get_year() is y.
C29_AsStated ==
    fnPc = "get_year" => fnRet.year = fnArg.year

-----------------------------------------------------------------------------
(* Claims about JieQi, checked under JieQiSpec *)

\* C30, as stated: for each of the 24 solar terms x, from_index(x.to_index())
\* returns Some(x), and for every i in 0..23 from_index(i) returns a term
\* whose to_index() is i.
C30_AsStated ==
    fnPc = "returned" =>
        /\ fnArg.fn = "JieQi::to_index" => fnRet.jieqi = <<fnArg.jieqi>>
        /\ (fnArg.fn = "JieQi::from_index" /\ fnArg.index \in 0..23)
              => fnRet.index = <<fnArg.index>>

=============================================================================
